---- MODULE Spec2Model ----
(***************************************************************************)
(* RS-bus decoder library (software pulse counting, RSBUS_USES_SW).        *)
(*                                                                         *)
(* The model has three parts:                                              *)
(*  - the interrupt context: rs_interrupt(), run once per bus pulse;       *)
(*  - the control loop of the sketch: the host's send8bits()/send4bits(),  *)
(*    checkPolling() and one checkConnection() per connection, in that     *)
(*    order, over and over;                                                *)
(*  - the master station, which emits trains of pulses separated by        *)
(*    silences of three lengths.                                           *)
(* resetAddressPolled() takes its snapshot of addressPolled in one step    *)
(* and runs its body in a second step, so a pulse interrupt can fall       *)
(* between the two.                                                        *)
(*                                                                         *)
(* Specifications: Spec is the sketch with its own setup and any error     *)
(* handling, DefaultSpec the same with the constructor's error handling,   *)
(* both with a host that reports when asked; FairSpec has a host that also *)
(* reports of its own accord, and fairness; CfgSpec starts from other      *)
(* setups (invalid address, switch decoder, redundancy) with a host that   *)
(* uses send8bits() and send4bits(); LateSpec has a host that answers      *)
(* feedbackRequested late; EncSpec exercises the encoder alone;            *)
(* FifoSpec exercises one queue alone; RaceSpec adds interference that     *)
(* strikes in the middle of a periodic check; BusySpec has a host that     *)
(* keeps one connection supplied; WrapSpec adds long bursts of             *)
(* interference; SilenceSpec lets a silence last until timeIdle wraps;     *)
(* LoopSpec follows the loops of send8bits() and send4bits() step by step; *)
(* TimeSpec follows the clock of millis(); TcbSpec is the variant whose    *)
(* interrupt measures the time between pulses.                             *)
(***************************************************************************)
EXTENDS Integers, Sequences, FiniteSets, TLC

(***************************************************************************)
(* Bounds of the model                                                     *)
(***************************************************************************)
\* number of disturbances (noise pulse, missed pulse, long silence) the
\* master and the line may produce in one behaviour
MaxFaults == 1
\* the periodic check samples the counter during a train only while the
\* train is at most WinLow pulses old or at most WinHigh pulses from its end
WinLow == 1
WinHigh == 1
\* pulse interrupts that can fall between the snapshot and the body of one
\* periodic check
MaxPreempt == 1
\* number of times the host reports a change of its inputs of its own
\* accord, that is without feedbackRequested being set
MaxReports == 1
\* the silence counter is followed up to this value
MaxIdle == 8
\* length of a burst of interference: as many pulses as the 8-bit counter
\* addressPolled has values
NoiseLength == 256

\* the clock is followed for MaxMillis milliseconds
MaxMillis == 40

\* the clock frequency the TCB variant is built for, in Hz
F_CPU == 16000000
\* number of bytes pushed when a queue is exercised on its own: enough to
\* move the head, fill the sixteen cells around the end of the buffer and
\* push once more
MaxPushes == 18

(***************************************************************************)
(* Program constants                                                       *)
(***************************************************************************)
FIFO_SIZE == 16
PulsesPerCycle == 130
MaxAddress == 128
DATA_0 == 7
DATA_1 == 6
DATA_2 == 5
DATA_3 == 4
NIBBLEBIT == 3
TT_BIT_0 == 2
TT_BIT_1 == 1
PARITY == 0

Byte == 0..255
Conns == {1, 2}
Decoder_t == {"Switch", "Feedback"}
\* what setup() of the sketch writes into its connections
Setup ==
  [address |-> <<1, 128>>, type |-> <<"Feedback", "Feedback">>,
   forwardErrorCorrection |-> <<0, 0>>]
\* the values the host reports
Values == {150}
\* other things a sketch's setup() can write: an address outside 1..128 for
\* one connection, a switch decoder, redundant transmission
Setups ==
  {Setup,
   [address |-> <<0, 3>>, type |-> <<"Switch", "Feedback">>,
    forwardErrorCorrection |-> <<2, 0>>],
   [address |-> <<2, 129>>, type |-> <<"Feedback", "Switch">>,
    forwardErrorCorrection |-> <<2, 1>>]}
\* the values of forwardErrorCorrection the documentation calls reasonable
Redundancy == 0..2
\* the settings of <<parityErrorHandling, pulseCountErrorHandling>> that
\* setup() chooses from; <<1, 2>> is the default
Policies == {<<1, 2>>, <<0, 1>>, <<2, 0>>}

(***************************************************************************)
(* 8-bit arithmetic                                                        *)
(***************************************************************************)
RECURSIVE Pow2(_)
Pow2(n) == IF n = 0 THEN 1 ELSE 2 * Pow2(n - 1)

Bit(x, i) == (x \div Pow2(i)) % 2

U8(x) == x % 256

\* x | (b << i) for a single bit b
OrBit(x, b, i) == IF b = 1 /\ Bit(x, i) = 0 THEN x + Pow2(i) ELSE x

RECURSIVE PopCount(_)
PopCount(x) == IF x = 0 THEN 0 ELSE (x % 2) + PopCount(x \div 2)

\* avr-libc: 1 when the value has an odd number of bits set
parity_even_bit(x) == PopCount(x) % 2

(***************************************************************************)
(* FIFO                                                                    *)
(***************************************************************************)
FIFO == [head |-> 0, tail |-> 0, numElements |-> 0,
         buffer |-> [i \in 0..(FIFO_SIZE - 1) |-> 0]]

size(q) == q.numElements

\* push() without line 422: a full queue takes the byte
pushOntoFull(q, data) ==
  LET n == q.numElements + 1
      t == IF n > 1 THEN (q.tail + 1) % FIFO_SIZE ELSE q.tail
  IN [q EXCEPT !.numElements = n, !.tail = t, !.buffer[t] = data]

push(q, data) ==
  IF q.numElements = FIFO_SIZE THEN q
  ELSE LET n == q.numElements + 1
           t == IF n > 1 THEN (q.tail + 1) % FIFO_SIZE ELSE q.tail
       IN [q EXCEPT !.numElements = n, !.tail = t, !.buffer[t] = data]

\* pop() without the condition of line 439: head moves on even when the
\* last byte is taken
popAlwaysAdvances(q) ==
  IF q.numElements = 0 THEN q
  ELSE [q EXCEPT !.numElements = q.numElements - 1,
                 !.head = (q.head + 1) % FIFO_SIZE]

\* the queue after pop()
pop(q) ==
  IF q.numElements = 0 THEN q
  ELSE LET n == q.numElements - 1
       IN [q EXCEPT !.numElements = n,
                    !.head = IF n >= 1 THEN (q.head + 1) % FIFO_SIZE ELSE q.head]

\* the value pop() returns
popped(q) == IF q.numElements = 0 THEN 0 ELSE q.buffer[q.head]

empty(q) == [q EXCEPT !.head = 0, !.tail = 0, !.numElements = 0]

\* the bytes waiting in the queue, oldest first
contents(q) ==
  [i \in 1..q.numElements |-> q.buffer[(q.head + i - 1) % FIFO_SIZE]]

(***************************************************************************)
(* Message encoding                                                        *)
(***************************************************************************)
\* the configuration fields of the RSbusConnection objects, written by
\* setup() and never afterwards
VARIABLES address, type, forwardErrorCorrection

cfgVars == <<address, type, forwardErrorCorrection>>

\* format_nibble() with the two branches of step 1B exchanged
formattedEvenTotal(t, value) ==
  LET v1 == IF t = "Switch" THEN OrBit(value, 1, TT_BIT_0) ELSE value
      v2 == IF t = "Feedback" THEN OrBit(v1, 1, TT_BIT_1) ELSE v1
  IN IF parity_even_bit(v2) = 1 THEN OrBit(v2, 1, PARITY) ELSE v2

\* format_nibble() with the two type bits exchanged
formattedTypeSwapped(t, value) ==
  LET v1 == IF t = "Switch" THEN OrBit(value, 1, TT_BIT_1) ELSE value
      v2 == IF t = "Feedback" THEN OrBit(v1, 1, TT_BIT_0) ELSE v1
  IN IF parity_even_bit(v2) = 1 THEN v2 ELSE OrBit(v2, 1, PARITY)

\* the byte format_nibble() stores
formatted(t, value) ==
  LET v1 == IF t = "Switch" THEN OrBit(value, 1, TT_BIT_0) ELSE value
      v2 == IF t = "Feedback" THEN OrBit(v1, 1, TT_BIT_1) ELSE v1
  IN IF parity_even_bit(v2) = 1 THEN v2 ELSE OrBit(v2, 1, PARITY)

format_nibble(c, q, value) == push(q, formatted(type[c], value))

\* the four data bits, in reversed order, in bits 7..4
reversed(value) ==
  Bit(value, 0) * Pow2(DATA_0) + Bit(value, 1) * Pow2(DATA_1)
    + Bit(value, 2) * Pow2(DATA_2) + Bit(value, 3) * Pow2(DATA_3)

\* dataNibble1 taken from the high order bits
dataNibble1FromHighBits(value) == reversed(value \div 16)

dataNibble1(value) == reversed(value)

\* dataNibble2 built with the masks of the first nibble
dataNibble2FromLowBits(value) == reversed(value) + Pow2(NIBBLEBIT)

dataNibble2(value) == reversed(value \div 16) + Pow2(NIBBLEBIT)

\* the loop of send4bits() with < in place of <=
RECURSIVE loop4OneShort(_, _, _, _)
loop4OneShort(c, q, data, i) ==
  IF i < forwardErrorCorrection[c]
  THEN loop4OneShort(c, format_nibble(c, q, data), data, i + 1)
  ELSE q

RECURSIVE loop4(_, _, _, _)
loop4(c, q, data, i) ==
  IF i <= forwardErrorCorrection[c]
  THEN loop4(c, format_nibble(c, q, data), data, U8(i + 1))
  ELSE q

\* the loop of send8bits() with < in place of <=
RECURSIVE loop8OneShort(_, _, _, _)
loop8OneShort(c, q, value, i) ==
  IF i < forwardErrorCorrection[c]
  THEN loop8OneShort(c, format_nibble(c, format_nibble(c, q, dataNibble1(value)),
                                      dataNibble2(value)), value, i + 1)
  ELSE q

RECURSIVE loop8(_, _, _, _)
loop8(c, q, value, i) ==
  IF i <= forwardErrorCorrection[c]
  THEN loop8(c, format_nibble(c, format_nibble(c, q, dataNibble1(value)),
                              dataNibble2(value)), value, U8(i + 1))
  ELSE q

(***************************************************************************)
(* State                                                                   *)
(***************************************************************************)
VARIABLES
  \* rsISR
  addressPolled, lastPulseCnt, timeIdle, data2sendFlag, data4IsrFlag,
  dataWasSendFlag, flagPulseCount, flagParity, address2use, data2send,
  \* rsbusHardware
  rsSignalIsOK, parityErrors, pulseCountErrors, parityErrorHandling,
  pulseCountErrorHandling,
  \* the RSbusConnection objects
  status, feedbackRequested, my_fifo,
  \* the USART data register
  dataRegister,
  \* the control loop: the call it is about to make, the snapshot held by
  \* resetAddressPolled(), the connection whose turn it is
  pc, currentCnt, conn,
  \* the master station: pulses of the current train already emitted, kind
  \* of the silence that follows the train, disturbances so far
  train, silence, faults,
  \* the host: reports made of its own accord so far, and the value of its
  \* inputs (the sketch's variable value)
  reports, hostValue,
  \* the loop variable i of send4bits() and send8bits() while the loop of
  \* such a call is followed step by step
  sendI,
  \* the clock: the value millis() returns, and rsISR.tLastCheck
  millis, tLastCheck,
  \* history: bytes written to the USART since the last third check, whether
  \* one was written since the master began its latest train, pulses seen
  \* since addressPolled was last set to 0, the connection that staged
  \* data2send, whether the signal was declared bad while that byte was
  \* staged, and per connection how far the last forced reset has got and
  \* the check (3, 5 or 7) that forced it, and parityErrors as it was at
  \* the latest third check, that is when the current silence was detected,
  \* and the number, counted from the latest third check, of the pulse whose
  \* interrupt wrote the USART (0 if none did), and whether the staged byte
  \* was staged after the latest third check
  sentInTrain, emitted, pulses, stagedBy, voided, reset, parityBefore, sentAt,
  fresh

isrVars == <<addressPolled, lastPulseCnt, timeIdle, data2sendFlag, data4IsrFlag,
             dataWasSendFlag, flagPulseCount, flagParity, address2use, data2send>>
hwVars == <<rsSignalIsOK, parityErrors, pulseCountErrors, parityErrorHandling,
            pulseCountErrorHandling>>
connVars == <<status, feedbackRequested, my_fifo>>
loopVars == <<pc, currentCnt, conn>>
masterVars == <<train, silence, faults>>
clockVars == <<millis, tLastCheck>>
hostVars == <<reports, hostValue, sendI, clockVars>>
histVars == <<sentInTrain, emitted, pulses, stagedBy, voided, reset,
             parityBefore, sentAt, fresh>>
vars == <<cfgVars, isrVars, hwVars, connVars, dataRegister, loopVars,
          masterVars, hostVars, histVars>>

NoReset == [stage |-> "no", tick |-> 0]

Status == {"notSynchronised", "feedbackIsNeeded", "feedbackNibble1",
           "feedbackNibble2", "connected"}

\* RSbusIsr::RSbusIsr, RSbusHardware::RSbusHardware, RSbusConnection::RSbusConnection;
\* setup() may change the two error-handling parameters before the loop starts
Constructed ==
  /\ addressPolled = 0
  /\ lastPulseCnt = 0
  /\ timeIdle = 0
  /\ address2use = 0
  /\ data2send = 0
  /\ data2sendFlag = FALSE
  /\ data4IsrFlag = FALSE
  /\ dataWasSendFlag = FALSE
  /\ flagParity = FALSE
  /\ flagPulseCount = FALSE
  /\ rsSignalIsOK = FALSE
  /\ parityErrors = 0
  /\ pulseCountErrors = 0
  /\ \E p \in Policies : parityErrorHandling = p[1] /\ pulseCountErrorHandling = p[2]
  /\ status = [c \in Conns |-> "notSynchronised"]
  /\ feedbackRequested = [c \in Conns |-> FALSE]
  /\ my_fifo = [c \in Conns |-> FIFO]
  /\ dataRegister = 0
  /\ pc = "checkPolling"
  /\ currentCnt = 0
  /\ conn = 1
  /\ train = PulsesPerCycle
  /\ silence = "boot"
  /\ faults = 0
  /\ reports = 0
  /\ sendI = 0
  /\ millis = 0
  /\ tLastCheck = millis
  /\ sentInTrain = 0
  /\ emitted = FALSE
  /\ pulses = 0
  /\ stagedBy = 0
  /\ voided = FALSE
  /\ reset = [c \in Conns |-> NoReset]
  /\ parityBefore = 0
  /\ sentAt = 0
  /\ fresh = FALSE

\* the state in which loop() is first called
Init ==
  /\ address = Setup.address
  /\ type = Setup.type
  /\ forwardErrorCorrection = Setup.forwardErrorCorrection
  /\ hostValue \in Values
  /\ Constructed

(***************************************************************************)
(* The interrupt context                                                   *)
(***************************************************************************)
\* what rs_interrupt() reads and writes
IsrState ==
  [addressPolled |-> addressPolled, address2use |-> address2use,
   data2send |-> data2send, data2sendFlag |-> data2sendFlag,
   data4IsrFlag |-> data4IsrFlag, dataWasSendFlag |-> dataWasSendFlag,
   dataRegister |-> dataRegister, sentInTrain |-> sentInTrain,
   emitted |-> emitted, pulses |-> pulses, stagedBy |-> stagedBy,
   voided |-> voided, sentAt |-> sentAt, fresh |-> fresh]

\* rs_interrupt() without line 232: the ready flag survives the write
rs_interruptKeepsReady(s) ==
  LET t == IF s.data4IsrFlag /\ s.address2use = s.addressPolled
           THEN [s EXCEPT !.dataRegister = s.data2send,
                          !.data2sendFlag = FALSE,
                          !.dataWasSendFlag = TRUE,
                          !.sentInTrain = s.sentInTrain + 1,
                          !.sentAt = s.pulses + 1,
                          !.emitted = TRUE,
                          !.stagedBy = 0,
                          !.voided = FALSE,
                          !.fresh = FALSE]
           ELSE s
  IN [t EXCEPT !.addressPolled = U8(s.addressPolled + 1),
               !.pulses = s.pulses + 1]

\* rs_interrupt() without line 230: the byte stays staged after the write
rs_interruptKeepsStaged(s) ==
  LET t == IF s.data4IsrFlag /\ s.address2use = s.addressPolled
           THEN [s EXCEPT !.dataRegister = s.data2send,
                          !.data4IsrFlag = FALSE,
                          !.dataWasSendFlag = TRUE,
                          !.sentInTrain = s.sentInTrain + 1,
                          !.sentAt = s.pulses + 1,
                          !.emitted = TRUE]
           ELSE s
  IN [t EXCEPT !.addressPolled = U8(s.addressPolled + 1),
               !.pulses = s.pulses + 1]

\* rs_interrupt() with line 235 moved to the top: the pulse is counted
\* before the address is compared
rs_interruptCountsFirst(s) ==
  LET u == [s EXCEPT !.addressPolled = U8(s.addressPolled + 1),
                     !.pulses = s.pulses + 1]
  IN IF u.data4IsrFlag /\ u.address2use = u.addressPolled
     THEN [u EXCEPT !.dataRegister = u.data2send,
                    !.data2sendFlag = FALSE,
                    !.data4IsrFlag = FALSE,
                    !.dataWasSendFlag = TRUE,
                    !.sentInTrain = u.sentInTrain + 1,
                    !.sentAt = u.pulses,
                    !.emitted = TRUE,
                    !.stagedBy = 0,
                    !.voided = FALSE,
                    !.fresh = FALSE]
     ELSE u

\* one call of rs_interrupt()
rs_interrupt(s) ==
  LET t == IF s.data4IsrFlag /\ s.address2use = s.addressPolled
           THEN [s EXCEPT !.dataRegister = s.data2send,
                          !.data2sendFlag = FALSE,
                          !.data4IsrFlag = FALSE,
                          !.dataWasSendFlag = TRUE,
                          !.sentInTrain = s.sentInTrain + 1,
                          !.sentAt = s.pulses + 1,
                          !.emitted = TRUE,
                          !.stagedBy = 0,
                          !.voided = FALSE,
                          !.fresh = FALSE]
           ELSE s
  IN [t EXCEPT !.addressPolled = U8(s.addressPolled + 1),
               !.pulses = s.pulses + 1]

\* the threshold of the TCB variant, in timer counts
T180uS == (F_CPU \div 1000000) * 180

\* the interrupt of the TCB variant without line 283: a short pulse leaves
\* the ready flag alone
TCB_INT_vectKeepsReady(s, delta) ==
  IF delta <= T180uS
  THEN [s EXCEPT !.addressPolled = U8(s.addressPolled + 1),
                 !.pulses = s.pulses + 1]
  ELSE rs_interrupt(s)

\* one call of the interrupt of the TCB variant; delta is the time the
\* timer captured since the previous pulse. Lines 285-295, taken for a
\* longer delta, are the text of rs_interrupt()
TCB_INT_vect(s, delta) ==
  IF delta <= T180uS
  THEN [s EXCEPT !.data4IsrFlag = FALSE,
                 !.addressPolled = U8(s.addressPolled + 1),
                 !.pulses = s.pulses + 1]
  ELSE rs_interrupt(s)

\* k calls in a row
RECURSIVE Interrupts(_, _)
Interrupts(s, k) ==
  IF k = 0 THEN s
  ELSE IF k = 1 THEN rs_interrupt(s)
  ELSE LET h == k \div 2
           mid == Interrupts(s, h)
       IN IF mid.addressPolled \in Byte THEN Interrupts(mid, k - h) ELSE mid

\* k pulses arrive while the loop does nothing
Pulses(from, k) ==
  LET s == Interrupts(from, k)
  IN /\ addressPolled' = s.addressPolled
     /\ data2sendFlag' = s.data2sendFlag
     /\ data4IsrFlag' = s.data4IsrFlag
     /\ dataWasSendFlag' = s.dataWasSendFlag
     /\ dataRegister' = s.dataRegister
     /\ sentInTrain' = s.sentInTrain
     /\ emitted' = s.emitted
     /\ pulses' = s.pulses
     /\ stagedBy' = s.stagedBy
     /\ voided' = s.voided
     /\ sentAt' = s.sentAt
     /\ fresh' = s.fresh
     /\ UNCHANGED <<lastPulseCnt, timeIdle, flagPulseCount, flagParity,
                    address2use, data2send, cfgVars, hwVars, connVars,
                    loopVars, hostVars, reset, parityBefore>>

(***************************************************************************)
(* The master station and the line                                         *)
(***************************************************************************)
Silent == train = PulsesPerCycle

\* number of unchanged checks a silence of each kind lasts at least / at most
minIdle(k) == CASE k = "boot" -> 0 [] k = "normal" -> 3 [] k = "parity" -> 5
                [] OTHER -> 7
maxIdle(k) == CASE k = "normal" -> 4 [] k = "parity" -> 6 [] OTHER -> MaxIdle

\* the loop is followed during the first WinLow and the last WinHigh pulses
\* of a train
WindowAt(n) == n <= WinLow \/ n >= PulsesPerCycle - WinHigh

InWindow == WindowAt(train)

\* an interrupt falls between the snapshot and the body of a periodic check
\* at most MaxPreempt times
MayInterrupt ==
  pc = "resetAddressPolled" => U8(addressPolled + 256 - currentCnt) < MaxPreempt

\* the master ends a train and decides how long it will stay silent; a
\* train lasts long enough for a periodic check to have fallen in it
EndOfTrain(n) ==
  IF n = PulsesPerCycle
  THEN /\ timeIdle <= 2
       /\ \/ silence' = "normal" /\ faults' = faults
          \/ /\ faults < MaxFaults
             /\ silence' \in {"parity", "loss"}
             /\ faults' = faults + 1
  ELSE silence' = "none" /\ faults' = faults

\* one pulse of the polling train reaches the interrupt pin
MasterPulse ==
  /\ Silent => timeIdle >= minIdle(silence)
  /\ MayInterrupt
  /\ LET n == IF Silent THEN 1 ELSE train + 1
     IN WindowAt(n) /\ train' = n /\ EndOfTrain(n)
  /\ Pulses(IF Silent THEN [IsrState EXCEPT !.emitted = FALSE] ELSE IsrState, 1)

\* the pulses of the middle of the train, one interrupt each, while the
\* loop is between two iterations
MasterBurst ==
  /\ train = WinLow
  /\ pc = "checkPolling"
  /\ train' = PulsesPerCycle - WinHigh
  /\ EndOfTrain(train')
  /\ Pulses(IsrState, train' - train)

\* interference: the pin sees a pulse the master did not send
NoisePulse ==
  /\ ~Silent /\ InWindow
  /\ MayInterrupt
  /\ faults < MaxFaults
  /\ faults' = faults + 1
  /\ UNCHANGED <<train, silence>>
  /\ Pulses(IsrState, 1)

\* interference while the master is silent, at the moment a periodic check
\* has taken its snapshot and not yet run its body
NoiseInCheck ==
  /\ Silent
  /\ pc = "resetAddressPolled"
  /\ MayInterrupt
  /\ faults < MaxFaults
  /\ faults' = faults + 1
  /\ UNCHANGED <<train, silence>>
  /\ Pulses(IsrState, 1)

\* interference that lasts: the pin sees NoiseLength pulses the master did
\* not send, early in a train, one interrupt each
NoiseBurst ==
  /\ train = WinLow
  /\ pc = "checkPolling"
  /\ faults < MaxFaults
  /\ faults' = faults + 1
  /\ UNCHANGED <<train, silence>>
  /\ Pulses(IsrState, NoiseLength)

\* a pulse of the train does not reach the pin
MissedPulse ==
  /\ ~Silent /\ InWindow
  /\ WindowAt(train + 1)
  /\ faults < MaxFaults
  /\ faults' = faults + 1
  /\ train' = train + 1
  /\ train' = PulsesPerCycle => timeIdle <= 2
  /\ silence' = IF train' = PulsesPerCycle THEN "normal" ELSE silence
  /\ UNCHANGED <<cfgVars, isrVars, hwVars, connVars, dataRegister, loopVars,
                 hostVars, histVars>>

(***************************************************************************)
(* The control loop: checkPolling()                                        *)
(***************************************************************************)
\* triggerRetransmission() whose case 1 does not look at justTransmitted
triggerRetransmissionIgnoresFlag(strategy, justTransmitted) ==
  LET ok == CASE strategy = 0 -> rsSignalIsOK
              [] strategy = 1 -> FALSE
              [] strategy = 2 -> FALSE
              [] OTHER -> rsSignalIsOK
  IN [rsSignalIsOK |-> ok,
      data4IsrFlag |-> IF ok = FALSE THEN FALSE ELSE data4IsrFlag]

\* triggerRetransmission() whose case 0 falls through into case 2
triggerRetransmissionFallsThrough(strategy, justTransmitted) ==
  LET ok == CASE strategy = 0 -> FALSE
              [] strategy = 1 -> IF justTransmitted THEN FALSE ELSE rsSignalIsOK
              [] strategy = 2 -> FALSE
              [] OTHER -> rsSignalIsOK
  IN [rsSignalIsOK |-> ok,
      data4IsrFlag |-> IF ok = FALSE THEN FALSE ELSE data4IsrFlag]

\* triggerRetransmission() without line 141: the ready flag survives the
\* clearing of rsSignalIsOK
triggerRetransmissionKeepsReady(strategy, justTransmitted) ==
  LET ok == CASE strategy = 0 -> rsSignalIsOK
              [] strategy = 1 -> IF justTransmitted THEN FALSE ELSE rsSignalIsOK
              [] strategy = 2 -> FALSE
              [] OTHER -> rsSignalIsOK
  IN [rsSignalIsOK |-> ok, data4IsrFlag |-> data4IsrFlag]

\* rsSignalIsOK and data4IsrFlag after triggerRetransmission()
triggerRetransmission(strategy, justTransmitted) ==
  LET ok == CASE strategy = 0 -> rsSignalIsOK
              [] strategy = 1 -> IF justTransmitted THEN FALSE ELSE rsSignalIsOK
              [] strategy = 2 -> FALSE
              [] OTHER -> rsSignalIsOK
  IN [rsSignalIsOK |-> ok,
      data4IsrFlag |-> IF ok = FALSE THEN FALSE ELSE data4IsrFlag]

\* the value timeIdle takes if a check runs now
IdleNext == IF addressPolled = lastPulseCnt THEN timeIdle + 1 ELSE 1

\* 2 ms have passed since the last check: a silence is sampled for as long
\* as it lasts, a running train only near its ends and never three times
\* without a pulse in between
TickAllowed ==
  IF Silent THEN IdleNext <= maxIdle(silence)
  ELSE InWindow /\ IdleNext <= 2

\* the calls of the loop are followed during a silence and near the ends of
\* a train
LoopRuns == Silent \/ InWindow

\* loop() of the sketch answers a pending request of a connection with
\* send8bits() before it calls checkPolling()
Answered == \A c \in Conns : ~feedbackRequested[c]

\* checkPolling() before 2 ms have passed
checkPollingSkip ==
  /\ pc = "checkPolling"
  /\ LoopRuns
  /\ Answered
  /\ pc' = "checkConnection"
  /\ conn' = 1
  /\ UNCHANGED <<cfgVars, isrVars, hwVars, connVars, dataRegister,
                 currentCnt, masterVars, hostVars, histVars>>

\* a pass of loop() in which the host has not yet answered a pending
\* request: checkPolling() before 2 ms have passed
checkPollingLate ==
  /\ pc = "checkPolling"
  /\ LoopRuns
  /\ ~Answered
  /\ pc' = "checkConnection"
  /\ conn' = 1
  /\ UNCHANGED <<cfgVars, isrVars, hwVars, connVars, dataRegister,
                 currentCnt, masterVars, hostVars, histVars>>

\* the same pass when 2 ms have passed: resetAddressPolled() takes its
\* snapshot
checkPollingLateTick ==
  /\ pc = "checkPolling"
  /\ TickAllowed
  /\ ~Answered
  /\ currentCnt' = addressPolled
  /\ pc' = "resetAddressPolled"
  /\ UNCHANGED <<cfgVars, isrVars, hwVars, connVars, dataRegister, conn,
                 masterVars, hostVars, histVars>>

\* checkPolling() after 2 ms: resetAddressPolled() takes its snapshot
checkPolling ==
  /\ pc = "checkPolling"
  /\ TickAllowed
  /\ Answered
  /\ currentCnt' = addressPolled
  /\ pc' = "resetAddressPolled"
  /\ UNCHANGED <<cfgVars, isrVars, hwVars, connVars, dataRegister, conn,
                 masterVars, hostVars, histVars>>

\* checkPolling() after 2 ms while the master stays silent beyond the
\* MaxIdle checks that are otherwise followed: the signal is lost and the
\* checks go on, for as long as it takes timeIdle to come round again
checkPollingLong ==
  /\ pc = "checkPolling"
  /\ Silent /\ silence = "loss"
  /\ IdleNext > MaxIdle
  /\ Answered
  /\ currentCnt' = addressPolled
  /\ pc' = "resetAddressPolled"
  /\ UNCHANGED <<cfgVars, isrVars, hwVars, connVars, dataRegister, conn,
                 masterVars, hostVars, histVars>>

\* connections whose reset is recorded when rsSignalIsOK is cleared
MarkReset(lost, n) ==
  IF lost THEN [c \in Conns |-> [stage |-> "pending", tick |-> n]] ELSE reset

\* the third check with the wrong number of pulses per cycle
Check3OffByOne ==
  /\ flagPulseCount' = dataWasSendFlag
  /\ flagParity' = dataWasSendFlag
  /\ dataWasSendFlag' = FALSE
  /\ IF addressPolled = PulsesPerCycle - 1
     THEN /\ rsSignalIsOK' = TRUE
          /\ data4IsrFlag' = IF data2sendFlag THEN TRUE ELSE data4IsrFlag
          /\ UNCHANGED pulseCountErrors
     ELSE IF rsSignalIsOK
          THEN LET r == triggerRetransmission(pulseCountErrorHandling, flagPulseCount')
               IN /\ pulseCountErrors' = U8(pulseCountErrors + 1)
                  /\ rsSignalIsOK' = r.rsSignalIsOK
                  /\ data4IsrFlag' = r.data4IsrFlag
          ELSE UNCHANGED <<pulseCountErrors, rsSignalIsOK, data4IsrFlag>>
  /\ addressPolled' = 0
  /\ lastPulseCnt' = 0
  /\ sentInTrain' = 0
  /\ pulses' = 0
  /\ voided' = (voided \/ (rsSignalIsOK /\ ~rsSignalIsOK' /\ data2sendFlag))
  /\ reset' = MarkReset(rsSignalIsOK /\ ~rsSignalIsOK', 3)
  /\ parityBefore' = parityErrors
  /\ sentAt' = 0
  /\ fresh' = FALSE
  /\ UNCHANGED <<parityErrors, emitted>>

\* the third check clearing rsSignalIsOK on every wrong count, without
\* triggerRetransmission()
Check3IgnoresPolicy ==
  /\ flagPulseCount' = dataWasSendFlag
  /\ flagParity' = dataWasSendFlag
  /\ dataWasSendFlag' = FALSE
  /\ IF addressPolled = PulsesPerCycle
     THEN /\ rsSignalIsOK' = TRUE
          /\ data4IsrFlag' = IF data2sendFlag THEN TRUE ELSE data4IsrFlag
          /\ UNCHANGED pulseCountErrors
     ELSE IF rsSignalIsOK
          THEN /\ pulseCountErrors' = U8(pulseCountErrors + 1)
               /\ rsSignalIsOK' = FALSE
               /\ data4IsrFlag' = FALSE
          ELSE UNCHANGED <<pulseCountErrors, rsSignalIsOK, data4IsrFlag>>
  /\ addressPolled' = 0
  /\ lastPulseCnt' = 0
  /\ sentInTrain' = 0
  /\ pulses' = 0
  /\ voided' = (voided \/ (rsSignalIsOK /\ ~rsSignalIsOK' /\ data2sendFlag))
  /\ reset' = MarkReset(rsSignalIsOK /\ ~rsSignalIsOK', 3)
  /\ parityBefore' = parityErrors
  /\ sentAt' = 0
  /\ fresh' = FALSE
  /\ UNCHANGED <<parityErrors, emitted>>

\* the third check with line 191 moved in front of the condition of line
\* 190: a wrong count is counted whatever rsSignalIsOK is
Check3CountsAlways ==
  /\ flagPulseCount' = dataWasSendFlag
  /\ flagParity' = dataWasSendFlag
  /\ dataWasSendFlag' = FALSE
  /\ IF addressPolled = PulsesPerCycle
     THEN /\ rsSignalIsOK' = TRUE
          /\ data4IsrFlag' = IF data2sendFlag THEN TRUE ELSE data4IsrFlag
          /\ UNCHANGED pulseCountErrors
     ELSE /\ pulseCountErrors' = U8(pulseCountErrors + 1)
          /\ IF rsSignalIsOK
             THEN LET r == triggerRetransmission(pulseCountErrorHandling,
                                                 flagPulseCount')
                  IN /\ rsSignalIsOK' = r.rsSignalIsOK
                     /\ data4IsrFlag' = r.data4IsrFlag
             ELSE UNCHANGED <<rsSignalIsOK, data4IsrFlag>>
  /\ addressPolled' = 0
  /\ lastPulseCnt' = 0
  /\ sentInTrain' = 0
  /\ pulses' = 0
  /\ voided' = (voided \/ (rsSignalIsOK /\ ~rsSignalIsOK' /\ data2sendFlag))
  /\ reset' = MarkReset(rsSignalIsOK /\ ~rsSignalIsOK', 3)
  /\ parityBefore' = parityErrors
  /\ sentAt' = 0
  /\ fresh' = FALSE
  /\ UNCHANGED <<parityErrors, emitted>>

\* the third check with line 187 moved in front of line 184: a staged byte
\* is made ready whatever the count
Check3ReadyOnAnyCount ==
  /\ flagPulseCount' = dataWasSendFlag
  /\ flagParity' = dataWasSendFlag
  /\ dataWasSendFlag' = FALSE
  /\ IF addressPolled = PulsesPerCycle
     THEN /\ rsSignalIsOK' = TRUE
          /\ data4IsrFlag' = IF data2sendFlag THEN TRUE ELSE data4IsrFlag
          /\ UNCHANGED pulseCountErrors
     ELSE IF rsSignalIsOK
          THEN LET r == triggerRetransmission(pulseCountErrorHandling, flagPulseCount')
               IN /\ pulseCountErrors' = U8(pulseCountErrors + 1)
                  /\ rsSignalIsOK' = r.rsSignalIsOK
                  /\ data4IsrFlag' = IF data2sendFlag THEN TRUE ELSE r.data4IsrFlag
          ELSE /\ data4IsrFlag' = IF data2sendFlag THEN TRUE ELSE data4IsrFlag
               /\ UNCHANGED <<pulseCountErrors, rsSignalIsOK>>
  /\ addressPolled' = 0
  /\ lastPulseCnt' = 0
  /\ sentInTrain' = 0
  /\ pulses' = 0
  /\ voided' = (voided \/ (rsSignalIsOK /\ ~rsSignalIsOK' /\ data2sendFlag))
  /\ reset' = MarkReset(rsSignalIsOK /\ ~rsSignalIsOK', 3)
  /\ parityBefore' = parityErrors
  /\ sentAt' = 0
  /\ fresh' = FALSE
  /\ UNCHANGED <<parityErrors, emitted>>

\* the third check without line 187: a staged byte is never made ready
Check3WithoutReady ==
  /\ flagPulseCount' = dataWasSendFlag
  /\ flagParity' = dataWasSendFlag
  /\ dataWasSendFlag' = FALSE
  /\ IF addressPolled = PulsesPerCycle
     THEN /\ rsSignalIsOK' = TRUE
          /\ UNCHANGED <<data4IsrFlag, pulseCountErrors>>
     ELSE IF rsSignalIsOK
          THEN LET r == triggerRetransmission(pulseCountErrorHandling, flagPulseCount')
               IN /\ pulseCountErrors' = U8(pulseCountErrors + 1)
                  /\ rsSignalIsOK' = r.rsSignalIsOK
                  /\ data4IsrFlag' = r.data4IsrFlag
          ELSE UNCHANGED <<pulseCountErrors, rsSignalIsOK, data4IsrFlag>>
  /\ addressPolled' = 0
  /\ lastPulseCnt' = 0
  /\ sentInTrain' = 0
  /\ pulses' = 0
  /\ voided' = (voided \/ (rsSignalIsOK /\ ~rsSignalIsOK' /\ data2sendFlag))
  /\ reset' = MarkReset(rsSignalIsOK /\ ~rsSignalIsOK', 3)
  /\ parityBefore' = parityErrors
  /\ sentAt' = 0
  /\ fresh' = FALSE
  /\ UNCHANGED <<parityErrors, emitted>>

\* third check: end of the pulse train
Check3 ==
  /\ flagPulseCount' = dataWasSendFlag
  /\ flagParity' = dataWasSendFlag
  /\ dataWasSendFlag' = FALSE
  /\ IF addressPolled = PulsesPerCycle
     THEN /\ rsSignalIsOK' = TRUE
          /\ data4IsrFlag' = IF data2sendFlag THEN TRUE ELSE data4IsrFlag
          /\ UNCHANGED pulseCountErrors
     ELSE IF rsSignalIsOK
          THEN LET r == triggerRetransmission(pulseCountErrorHandling, flagPulseCount')
               IN /\ pulseCountErrors' = U8(pulseCountErrors + 1)
                  /\ rsSignalIsOK' = r.rsSignalIsOK
                  /\ data4IsrFlag' = r.data4IsrFlag
          ELSE UNCHANGED <<pulseCountErrors, rsSignalIsOK, data4IsrFlag>>
  /\ addressPolled' = 0
  /\ lastPulseCnt' = 0
  /\ sentInTrain' = 0
  /\ pulses' = 0
  /\ voided' = (voided \/ (rsSignalIsOK /\ ~rsSignalIsOK' /\ data2sendFlag))
  /\ reset' = MarkReset(rsSignalIsOK /\ ~rsSignalIsOK', 3)
  /\ parityBefore' = parityErrors
  /\ sentAt' = 0
  /\ fresh' = FALSE
  /\ UNCHANGED <<parityErrors, emitted>>

\* the fifth check without the condition of line 199
Check5Unconditional ==
  /\ LET r == triggerRetransmission(parityErrorHandling, flagParity)
     IN /\ parityErrors' = U8(parityErrors + 1)
        /\ rsSignalIsOK' = r.rsSignalIsOK
        /\ data4IsrFlag' = r.data4IsrFlag
  /\ voided' = (voided \/ (rsSignalIsOK /\ ~rsSignalIsOK' /\ data2sendFlag))
  /\ reset' = MarkReset(rsSignalIsOK /\ ~rsSignalIsOK', 5)
  /\ UNCHANGED <<addressPolled, lastPulseCnt, dataWasSendFlag, flagPulseCount,
                 flagParity, pulseCountErrors, sentInTrain, emitted, pulses,
                 parityBefore, sentAt, fresh>>

\* the fifth check called with the parameter of the third
Check5WrongParameter ==
  /\ IF rsSignalIsOK
     THEN LET r == triggerRetransmission(pulseCountErrorHandling, flagParity)
          IN /\ parityErrors' = U8(parityErrors + 1)
             /\ rsSignalIsOK' = r.rsSignalIsOK
             /\ data4IsrFlag' = r.data4IsrFlag
     ELSE UNCHANGED <<parityErrors, rsSignalIsOK, data4IsrFlag>>
  /\ voided' = (voided \/ (rsSignalIsOK /\ ~rsSignalIsOK' /\ data2sendFlag))
  /\ reset' = MarkReset(rsSignalIsOK /\ ~rsSignalIsOK', 5)
  /\ UNCHANGED <<addressPolled, lastPulseCnt, dataWasSendFlag, flagPulseCount,
                 flagParity, pulseCountErrors, sentInTrain, emitted, pulses,
                 parityBefore, sentAt, fresh>>

\* fifth check: the master signals a parity error
Check5 ==
  /\ IF rsSignalIsOK
     THEN LET r == triggerRetransmission(parityErrorHandling, flagParity)
          IN /\ parityErrors' = U8(parityErrors + 1)
             /\ rsSignalIsOK' = r.rsSignalIsOK
             /\ data4IsrFlag' = r.data4IsrFlag
     ELSE UNCHANGED <<parityErrors, rsSignalIsOK, data4IsrFlag>>
  /\ voided' = (voided \/ (rsSignalIsOK /\ ~rsSignalIsOK' /\ data2sendFlag))
  /\ reset' = MarkReset(rsSignalIsOK /\ ~rsSignalIsOK', 5)
  /\ UNCHANGED <<addressPolled, lastPulseCnt, dataWasSendFlag, flagPulseCount,
                 flagParity, pulseCountErrors, sentInTrain, emitted, pulses,
                 parityBefore, sentAt, fresh>>

\* the seventh check without line 206
Check7KeepsSignal ==
  /\ parityErrors' = IF rsSignalIsOK THEN U8(parityErrors + 255) ELSE parityErrors
  /\ rsSignalIsOK' = rsSignalIsOK
  /\ data4IsrFlag' = FALSE
  /\ voided' = (voided \/ data2sendFlag)
  /\ reset' = MarkReset(TRUE, 7)
  /\ UNCHANGED <<addressPolled, lastPulseCnt, dataWasSendFlag, flagPulseCount,
                 flagParity, pulseCountErrors, sentInTrain, emitted, pulses,
                 parityBefore, sentAt, fresh>>

\* the seventh check without the condition of line 205
Check7AlwaysDecrements ==
  /\ parityErrors' = U8(parityErrors + 255)
  /\ rsSignalIsOK' = FALSE
  /\ data4IsrFlag' = FALSE
  /\ voided' = (voided \/ data2sendFlag)
  /\ reset' = MarkReset(TRUE, 7)
  /\ UNCHANGED <<addressPolled, lastPulseCnt, dataWasSendFlag, flagPulseCount,
                 flagParity, pulseCountErrors, sentInTrain, emitted, pulses,
                 parityBefore, sentAt, fresh>>

\* seventh check: the signal is lost
Check7 ==
  /\ parityErrors' = IF rsSignalIsOK THEN U8(parityErrors + 255) ELSE parityErrors
  /\ rsSignalIsOK' = FALSE
  /\ data4IsrFlag' = FALSE
  /\ voided' = (voided \/ data2sendFlag)
  /\ reset' = MarkReset(TRUE, 7)
  /\ UNCHANGED <<addressPolled, lastPulseCnt, dataWasSendFlag, flagPulseCount,
                 flagParity, pulseCountErrors, sentInTrain, emitted, pulses,
                 parityBefore, sentAt, fresh>>

\* the body of resetAddressPolled(), after the snapshot
resetAddressPolled ==
  /\ pc = "resetAddressPolled"
  /\ pc' = "checkConnection"
  /\ conn' = 1
  /\ IF currentCnt = lastPulseCnt
     THEN /\ timeIdle' = U8(timeIdle + 1)
          /\ CASE timeIdle' = 3 -> Check3
               [] timeIdle' = 5 -> Check5
               [] timeIdle' = 7 -> Check7
               [] OTHER -> UNCHANGED <<addressPolled, lastPulseCnt, data4IsrFlag,
                                       dataWasSendFlag, flagPulseCount, flagParity,
                                       rsSignalIsOK, parityErrors,
                                       pulseCountErrors, sentInTrain,
                                       emitted, pulses, voided, reset,
                                       parityBefore, sentAt, fresh>>
     ELSE /\ lastPulseCnt' = currentCnt
          /\ timeIdle' = 1
          /\ UNCHANGED <<addressPolled, data4IsrFlag, dataWasSendFlag,
                         flagPulseCount, flagParity, rsSignalIsOK, parityErrors,
                         pulseCountErrors, sentInTrain, emitted, pulses,
                         voided, reset, parityBefore, sentAt, fresh>>
  /\ currentCnt' = 0
  /\ UNCHANGED <<data2sendFlag, address2use, data2send, parityErrorHandling,
                 pulseCountErrorHandling, cfgVars, connVars, dataRegister,
                 masterVars, hostVars, stagedBy>>

(***************************************************************************)
(* The control loop: the host's calls and checkConnection()                *)
(***************************************************************************)
\* the host reports a change nobody asked for
Report == reports < MaxReports /\ reports' = reports + 1

\* send8bits(), called at the top of loop(): as the answer to
\* feedbackRequested, lowest connection first, or as a report
send8bits(c, value) ==
  /\ pc = "checkPolling"
  /\ LoopRuns
  /\ \A d \in Conns : d < c => ~feedbackRequested[d]
  /\ IF feedbackRequested[c] THEN UNCHANGED reports ELSE Answered /\ Report
  /\ feedbackRequested' = [feedbackRequested EXCEPT ![c] = FALSE]
  /\ my_fifo' = [my_fifo EXCEPT ![c] = loop8(c, my_fifo[c], value, 0)]
  /\ UNCHANGED <<cfgVars, isrVars, hwVars, status, dataRegister, loopVars,
                 masterVars, hostValue, sendI, clockVars, histVars>>

\* send4bits(), called at the top of loop() as a report; the sketch makes
\* this call before it looks at feedbackRequested
send4bits(c, nibble, value) ==
  /\ pc = "checkPolling"
  /\ LoopRuns
  /\ Report
  /\ LET nibbleValue == IF nibble = "LowBits" THEN 0 ELSE 1
         data == reversed(value) + nibbleValue * Pow2(NIBBLEBIT)
     IN my_fifo' = [my_fifo EXCEPT ![c] = loop4(c, my_fifo[c], data, 0)]
  /\ UNCHANGED <<cfgVars, isrVars, hwVars, status, feedbackRequested,
                 dataRegister, loopVars, masterVars, hostValue, sendI,
                 clockVars, histVars>>

\* the conditions of sendNibble() without line 170
CanSendIgnoresStaged(c) ==
  /\ size(my_fifo[c]) > 0
  /\ address[c] > 0 /\ address[c] <= MaxAddress

\* the conditions of sendNibble() without line 171
CanSendAnyAddress(c) ==
  /\ size(my_fifo[c]) > 0
  /\ data2sendFlag = FALSE

\* can sendNibble() hand a byte of connection c to the interrupt routine?
CanSend(c) ==
  /\ size(my_fifo[c]) > 0
  /\ data2sendFlag = FALSE
  /\ address[c] > 0 /\ address[c] <= MaxAddress

\* sendNibble() without line 172
sendNibbleKeepsAddress(c) ==
  /\ address2use' = address2use
  /\ data2send' = popped(my_fifo[c])
  /\ my_fifo' = [my_fifo EXCEPT ![c] = pop(my_fifo[c])]
  /\ data2sendFlag' = TRUE
  /\ stagedBy' = c
  /\ voided' = FALSE
  /\ fresh' = TRUE

\* sendNibble() when it returns 1
sendNibble(c) ==
  /\ address2use' = address[c]
  /\ data2send' = popped(my_fifo[c])
  /\ my_fifo' = [my_fifo EXCEPT ![c] = pop(my_fifo[c])]
  /\ data2sendFlag' = TRUE
  /\ stagedBy' = c
  /\ voided' = FALSE
  /\ fresh' = TRUE

\* the loop moves on to the next call
NextCall(c) ==
  IF c + 1 \in Conns
  THEN pc' = "checkConnection" /\ conn' = c + 1
  ELSE pc' = "checkPolling" /\ conn' = 1

\* case notSynchronised without line 189
caseNotSynchronisedNoRequest(c) ==
  /\ status' = [status EXCEPT ![c] = "feedbackIsNeeded"]
  /\ reset' = [reset EXCEPT ![c] = IF reset[c].stage = "flushed"
                                   THEN NoReset ELSE reset[c]]
  /\ UNCHANGED <<feedbackRequested, my_fifo, address2use, data2send,
                 data2sendFlag, stagedBy, voided, fresh>>

\* case notSynchronised of checkConnection()
caseNotSynchronised(c) ==
  /\ status' = [status EXCEPT ![c] = "feedbackIsNeeded"]
  /\ feedbackRequested' = [feedbackRequested EXCEPT ![c] = TRUE]
  /\ reset' = [reset EXCEPT ![c] = IF reset[c].stage = "flushed"
                                   THEN NoReset ELSE reset[c]]
  /\ UNCHANGED <<my_fifo, address2use, data2send, data2sendFlag,
                 stagedBy, voided, fresh>>

\* lines 186-203 with case feedbackIsNeeded not looking at feedbackRequested
checkConnectionOKNoWait(c) ==
  CASE status[c] = "notSynchronised" -> caseNotSynchronised(c)
    [] status[c] = "feedbackIsNeeded" ->
         /\ status' = [status EXCEPT ![c] = "feedbackNibble1"]
         /\ UNCHANGED <<feedbackRequested, reset, my_fifo, address2use,
                        data2send, data2sendFlag, stagedBy, voided, fresh>>
    [] status[c] \in {"feedbackNibble1", "feedbackNibble2", "connected"} ->
         /\ IF CanSend(c)
            THEN /\ sendNibble(c)
                 /\ status' = [status EXCEPT ![c] =
                       CASE status[c] = "feedbackNibble1" -> "feedbackNibble2"
                         [] status[c] = "feedbackNibble2" -> "connected"
                         [] OTHER -> "connected"]
            ELSE UNCHANGED <<status, my_fifo, address2use, data2send,
                             data2sendFlag, stagedBy, voided, fresh>>
         /\ UNCHANGED <<feedbackRequested, reset>>

\* checkConnection() while the signal is good: lines 186-203
checkConnectionOK(c) ==
  CASE status[c] = "notSynchronised" -> caseNotSynchronised(c)
    [] status[c] = "feedbackIsNeeded" ->
         /\ status' = IF feedbackRequested[c] = FALSE
                      THEN [status EXCEPT ![c] = "feedbackNibble1"]
                      ELSE status
         /\ UNCHANGED <<feedbackRequested, reset, my_fifo, address2use,
                        data2send, data2sendFlag, stagedBy, voided, fresh>>
    [] status[c] \in {"feedbackNibble1", "feedbackNibble2", "connected"} ->
         /\ IF CanSend(c)
            THEN /\ sendNibble(c)
                 /\ status' = [status EXCEPT ![c] =
                       CASE status[c] = "feedbackNibble1" -> "feedbackNibble2"
                         [] status[c] = "feedbackNibble2" -> "connected"
                         [] OTHER -> "connected"]
            ELSE UNCHANGED <<status, my_fifo, address2use, data2send,
                             data2sendFlag, stagedBy, voided, fresh>>
         /\ UNCHANGED <<feedbackRequested, reset>>

\* the else branch without line 208: the staged byte stays staged
checkConnectionLostKeepsStaged(c) ==
  /\ status' = [status EXCEPT ![c] = "notSynchronised"]
  /\ my_fifo' = [my_fifo EXCEPT ![c] = empty(my_fifo[c])]
  /\ reset' = [reset EXCEPT ![c].stage = IF @ = "pending" THEN "flushed" ELSE @]
  /\ UNCHANGED <<feedbackRequested, address2use, data2send, data2sendFlag,
                 stagedBy, voided, fresh>>

\* the else branch without line 207: the queue keeps its bytes
checkConnectionLostKeepsQueue(c) ==
  /\ status' = [status EXCEPT ![c] = "notSynchronised"]
  /\ data2sendFlag' = FALSE
  /\ stagedBy' = 0
  /\ voided' = FALSE
  /\ fresh' = FALSE
  /\ reset' = [reset EXCEPT ![c].stage = IF @ = "pending" THEN "flushed" ELSE @]
  /\ UNCHANGED <<feedbackRequested, my_fifo, address2use, data2send>>

\* the else branch without line 206: the state machine stays where it is
checkConnectionLostKeepsStatus(c) ==
  /\ my_fifo' = [my_fifo EXCEPT ![c] = empty(my_fifo[c])]
  /\ data2sendFlag' = FALSE
  /\ stagedBy' = 0
  /\ voided' = FALSE
  /\ fresh' = FALSE
  /\ reset' = [reset EXCEPT ![c].stage = IF @ = "pending" THEN "flushed" ELSE @]
  /\ UNCHANGED <<status, feedbackRequested, address2use, data2send>>

\* checkConnection() while the signal is bad: lines 205-209
checkConnectionLost(c) ==
  /\ status' = [status EXCEPT ![c] = "notSynchronised"]
  /\ my_fifo' = [my_fifo EXCEPT ![c] = empty(my_fifo[c])]
  /\ data2sendFlag' = FALSE
  /\ stagedBy' = 0
  /\ voided' = FALSE
  /\ fresh' = FALSE
  /\ reset' = [reset EXCEPT ![c].stage = IF @ = "pending" THEN "flushed" ELSE @]
  /\ UNCHANGED <<feedbackRequested, address2use, data2send>>

checkConnection(c) ==
  /\ pc = "checkConnection"
  /\ conn = c
  /\ NextCall(c)
  /\ IF rsSignalIsOK THEN checkConnectionOK(c) ELSE checkConnectionLost(c)
  /\ UNCHANGED <<addressPolled, lastPulseCnt, timeIdle, data4IsrFlag,
                 dataWasSendFlag, flagPulseCount, flagParity, cfgVars, hwVars,
                 dataRegister, currentCnt, masterVars, hostVars, sentInTrain,
                 emitted, pulses, parityBefore, sentAt>>

(***************************************************************************)
(* Specification                                                           *)
(***************************************************************************)
\* the sketch with a host that calls send8bits() when feedbackRequested
\* asks for it, on a line with interference
Next ==
  \/ MasterPulse
  \/ MasterBurst
  \/ NoisePulse
  \/ MissedPulse
  \/ checkPollingSkip
  \/ checkPolling
  \/ resetAddressPolled
  \/ \E c \in Conns : feedbackRequested[c] /\ send8bits(c, hostValue)
  \/ \E c \in Conns : checkConnection(c)

Spec == Init /\ [][Next]_vars

\* the sketch with a host that also reports changes of its inputs with
\* send8bits()
FairNext ==
  \/ MasterPulse
  \/ MasterBurst
  \/ NoisePulse
  \/ MissedPulse
  \/ checkPollingSkip
  \/ checkPolling
  \/ resetAddressPolled
  \/ \E c \in Conns : send8bits(c, hostValue)
  \/ \E c \in Conns : checkConnection(c)

\* the sketch with a host that reports with send8bits() and send4bits(),
\* and a master that hears every answer and sees no reason to extend a
\* silence
CfgNext ==
  \/ MasterPulse /\ faults' = faults
  \/ MasterBurst
  \/ checkPollingSkip
  \/ checkPolling
  \/ resetAddressPolled
  \/ \E c \in Conns : send8bits(c, hostValue)
  \/ \E c \in Conns : \E nibble \in {"LowBits", "HighBits"} :
       send4bits(c, nibble, hostValue)
  \/ \E c \in Conns : checkConnection(c)

\* loop() is called over and over, 2 ms pass again and again, and the
\* master keeps polling
LoopStep ==
  \/ checkPollingSkip
  \/ resetAddressPolled
  \/ \E c \in Conns : feedbackRequested[c] /\ send8bits(c, hostValue)
  \/ \E c \in Conns : checkConnection(c)

\* MasterBurst is enabled in exactly these states
BurstReady == train = WinLow /\ pc = "checkPolling"

\* strong fairness of MasterBurst, with its enabling condition written out
BurstFair == <>[](~BurstReady) \/ []<><<MasterBurst>>_vars

\* the configuration RSbusHardware::RSbusHardware leaves behind when
\* setup() does not touch the two parameters
InitDefaults ==
  Init /\ parityErrorHandling = 1 /\ pulseCountErrorHandling = 2

\* the sketch with the constructor's error handling
DefaultSpec == InitDefaults /\ [][Next]_vars

FairSpec ==
  /\ InitDefaults
  /\ [][FairNext]_vars
  /\ WF_vars(LoopStep)
  /\ SF_vars(checkPolling)
  /\ SF_vars(MasterPulse)
  /\ BurstFair

\* a host that may let passes of loop(), and periodic checks with them, go
\* by before it answers feedbackRequested; the line is free of noise and
\* the master still extends its silences
LateNext ==
  \/ MasterPulse
  \/ MasterBurst
  \/ checkPollingSkip
  \/ checkPollingLate
  \/ checkPollingLateTick
  \/ checkPolling
  \/ resetAddressPolled
  \/ \E c \in Conns : feedbackRequested[c] /\ send8bits(c, hostValue)
  \/ \E c \in Conns : checkConnection(c)

LateSpec == InitDefaults /\ [][LateNext]_vars

\* the sketch with the constructor's error handling on a line where
\* interference may also strike in the middle of a periodic check
RaceNext == Next \/ NoiseInCheck

RaceSpec == InitDefaults /\ [][RaceNext]_vars

\* a host whose inputs at the first address keep changing: whenever that
\* connection's queue is down to its last byte, loop() calls send4bits()
\* for it again
BusyHost ==
  /\ pc = "checkPolling"
  /\ LoopRuns
  /\ Answered
  /\ size(my_fifo[1]) = 1
  /\ my_fifo' = [my_fifo EXCEPT ![1] = loop4(1, my_fifo[1], reversed(hostValue), 0)]
  /\ UNCHANGED <<cfgVars, isrVars, hwVars, status, feedbackRequested,
                 dataRegister, loopVars, masterVars, hostVars, histVars>>

\* the sketch with such a host, which makes no other reports, on a line
\* free of noise and with a master that never extends its silences
BusyNext ==
  \/ MasterPulse /\ faults' = faults
  \/ MasterBurst
  \/ checkPollingSkip
  \/ checkPolling
  \/ resetAddressPolled
  \/ \E c \in Conns : feedbackRequested[c] /\ send8bits(c, hostValue)
  \/ \E c \in Conns : checkConnection(c)
  \/ BusyHost

BusySpec ==
  /\ InitDefaults
  /\ [][BusyNext]_vars
  /\ WF_vars(LoopStep)
  /\ SF_vars(checkPolling)
  /\ SF_vars(MasterPulse)
  /\ BurstFair

\* the sketch with the constructor's error handling on a line where
\* interference may also come as a long burst
\* the test of line 161 left out
Due2msAlways(currentTime) == TRUE

\* the test of checkPolling(), line 161, on the value millis() returned:
\* the difference of two unsigned long is below 2 only if currentTime is
\* tLastCheck or the value after it (a difference below zero wraps round
\* to a large one)
Due2ms(currentTime) ==
  ~(currentTime = tLastCheck \/ currentTime = tLastCheck + 1)

\* a millisecond passes; the loop calls checkPolling() often enough for
\* a check never to be more than a millisecond late
Elapse ==
  /\ millis < MaxMillis
  /\ ~Due2ms(millis)
  /\ millis' = millis + 1
  /\ UNCHANGED <<cfgVars, isrVars, hwVars, connVars, dataRegister, loopVars,
                 masterVars, reports, hostValue, sendI, tLastCheck, histVars>>

\* checkPolling() with the clock followed: lines 160-164, up to the
\* snapshot resetAddressPolled() takes
checkPollingTimed ==
  /\ pc = "checkPolling"
  /\ Answered
  /\ LET currentTime == millis
     IN IF Due2ms(currentTime)
        THEN /\ TickAllowed
             /\ tLastCheck' = currentTime
             /\ currentCnt' = addressPolled
             /\ pc' = "resetAddressPolled"
             /\ UNCHANGED conn
        ELSE /\ LoopRuns
             /\ pc' = "checkConnection"
             /\ conn' = 1
             /\ UNCHANGED <<tLastCheck, currentCnt>>
  /\ UNCHANGED <<cfgVars, isrVars, hwVars, connVars, dataRegister,
                 masterVars, reports, hostValue, sendI, millis, histVars>>

\* the sketch with the constructor's error handling and a host that makes
\* no reports of its own accord, on a line free of noise, with the clock
\* of millis() followed
TimeNext ==
  \/ Elapse
  \/ MasterPulse
  \/ MasterBurst
  \/ checkPollingTimed
  \/ resetAddressPolled
  \/ \E c \in Conns : feedbackRequested[c] /\ send8bits(c, hostValue)
  \/ \E c \in Conns : checkConnection(c)

TimeSpec == InitDefaults /\ [][TimeNext]_vars

\* times the timer may have captured for a pulse that follows the previous
\* one too soon: the shortest and the threshold itself
ShortDeltas == {1, T180uS}

\* interference on the TCB variant: within a train the pin sees a pulse
\* the master did not send, no more than 180 us after the previous one
ShortPulse ==
  /\ ~Silent /\ InWindow
  /\ MayInterrupt
  /\ faults < MaxFaults
  /\ faults' = faults + 1
  /\ UNCHANGED <<train, silence>>
  /\ \E delta \in ShortDeltas : Pulses(TCB_INT_vect(IsrState, delta), 0)

\* the sketch on the TCB variant with the constructor's error handling and
\* a host that makes no reports of its own accord; the pulses of the master
\* are more than 180 us apart and take the second branch of the interrupt
TcbNext ==
  \/ MasterPulse
  \/ MasterBurst
  \/ ShortPulse
  \/ checkPollingSkip
  \/ checkPolling
  \/ resetAddressPolled
  \/ \E c \in Conns : feedbackRequested[c] /\ send8bits(c, hostValue)
  \/ \E c \in Conns : checkConnection(c)

TcbSpec == InitDefaults /\ [][TcbNext]_vars

WrapNext == Next \/ NoiseBurst

WrapSpec == InitDefaults /\ [][WrapNext]_vars

\* the sketch with the constructor's error handling and a host that makes
\* no reports of its own accord, on a line free of noise, with a master
\* whose silence may last any number of checks
SilenceNext ==
  \/ MasterPulse
  \/ MasterBurst
  \/ checkPollingSkip
  \/ checkPolling
  \/ checkPollingLong
  \/ resetAddressPolled
  \/ \E c \in Conns : feedbackRequested[c] /\ send8bits(c, hostValue)
  \/ \E c \in Conns : checkConnection(c)

SilenceSpec == InitDefaults /\ [][SilenceNext]_vars

\* values of the 8-bit field forwardErrorCorrection: the reasonable ones
\* and the two largest
Widths == {0, 1, 2, 254, 255}

\* send4bits() and send8bits() followed one iteration of their loop at a
\* time, for any value setup() may have written into forwardErrorCorrection
LoopInit ==
  /\ address = Setup.address
  /\ type = Setup.type
  /\ \E f \in Widths : forwardErrorCorrection = [c \in Conns |-> f]
  /\ hostValue \in Values
  /\ Constructed
  /\ parityErrorHandling = 1 /\ pulseCountErrorHandling = 2

\* the host calls send8bits(): lines 137-157, up to `uint8_t i = 0`
send8bitsEnter(c) ==
  /\ pc = "checkPolling"
  /\ Report
  /\ pc' = "send8bits"
  /\ conn' = c
  /\ sendI' = 0
  /\ feedbackRequested' = [feedbackRequested EXCEPT ![c] = FALSE]
  /\ UNCHANGED <<cfgVars, isrVars, hwVars, status, my_fifo, dataRegister,
                 currentCnt, masterVars, hostValue, clockVars, histVars>>

\* one iteration of the loop of lines 158-161: the test, the two calls of
\* format_nibble() and i++
send8bitsStep(c) ==
  /\ pc = "send8bits" /\ conn = c
  /\ sendI <= forwardErrorCorrection[c]
  /\ my_fifo' = [my_fifo EXCEPT ![c] =
       format_nibble(c, format_nibble(c, my_fifo[c], dataNibble1(hostValue)),
                     dataNibble2(hostValue))]
  /\ sendI' = U8(sendI + 1)
  /\ UNCHANGED <<cfgVars, isrVars, hwVars, status, feedbackRequested,
                 dataRegister, loopVars, masterVars, reports, hostValue,
                 clockVars, histVars>>

\* the test of line 158 fails and send8bits() returns
send8bitsReturn(c) ==
  /\ pc = "send8bits" /\ conn = c
  /\ ~(sendI <= forwardErrorCorrection[c])
  /\ pc' = "checkPolling"
  /\ UNCHANGED <<cfgVars, isrVars, hwVars, connVars, dataRegister, currentCnt,
                 conn, masterVars, hostVars, histVars>>

\* the host calls send4bits(): lines 117-131, up to `uint8_t i = 0`
send4bitsEnter(c) ==
  /\ pc = "checkPolling"
  /\ Report
  /\ pc' = "send4bits"
  /\ conn' = c
  /\ sendI' = 0
  /\ UNCHANGED <<cfgVars, isrVars, hwVars, connVars, dataRegister,
                 currentCnt, masterVars, hostValue, clockVars, histVars>>

\* one iteration of the loop of line 131
send4bitsStep(c) ==
  /\ pc = "send4bits" /\ conn = c
  /\ sendI <= forwardErrorCorrection[c]
  /\ my_fifo' = [my_fifo EXCEPT ![c] =
                   format_nibble(c, my_fifo[c], reversed(hostValue))]
  /\ sendI' = U8(sendI + 1)
  /\ UNCHANGED <<cfgVars, isrVars, hwVars, status, feedbackRequested,
                 dataRegister, loopVars, masterVars, reports, hostValue,
                 clockVars, histVars>>

\* the test of line 131 fails and send4bits() returns
send4bitsReturn(c) ==
  /\ pc = "send4bits" /\ conn = c
  /\ ~(sendI <= forwardErrorCorrection[c])
  /\ pc' = "checkPolling"
  /\ UNCHANGED <<cfgVars, isrVars, hwVars, connVars, dataRegister, currentCnt,
                 conn, masterVars, hostVars, histVars>>

LoopNext ==
  \/ \E c \in Conns : send8bitsEnter(c)
  \/ \E c \in Conns : send8bitsStep(c)
  \/ \E c \in Conns : send8bitsReturn(c)
  \/ \E c \in Conns : send4bitsEnter(c)
  \/ \E c \in Conns : send4bitsStep(c)
  \/ \E c \in Conns : send4bitsReturn(c)

\* the processor keeps executing the call it is in
LoopSpec == LoopInit /\ [][LoopNext]_vars /\ WF_vars(LoopNext)

\* the loop of the sketch after any of the setups, with the constructor's
\* error handling
CfgInit ==
  /\ \E s \in Setups :
       /\ address = s.address
       /\ type = s.type
       /\ forwardErrorCorrection = s.forwardErrorCorrection
  /\ hostValue \in Values
  /\ Constructed
  /\ parityErrorHandling = 1 /\ pulseCountErrorHandling = 2

CfgSpec == CfgInit /\ [][CfgNext]_vars

\* the encoder on its own: setup() chooses a type and a redundancy level,
\* the host's inputs have any value, and the host calls send8bits() or
\* send4bits() with it
EncInit ==
  /\ address = Setup.address
  /\ \E t \in Decoder_t : type = [c \in Conns |-> t]
  /\ \E f \in Redundancy : forwardErrorCorrection = [c \in Conns |-> f]
  /\ hostValue \in Byte
  /\ Constructed
  /\ parityErrorHandling = 1 /\ pulseCountErrorHandling = 2

EncNext ==
  \/ \E c \in Conns : send8bits(c, hostValue)
  \/ \E c \in Conns : \E nibble \in {"LowBits", "HighBits"} :
       send4bits(c, nibble, hostValue)

EncSpec == EncInit /\ [][EncNext]_vars

\* one queue on its own: the object that owns it pushes the bytes 1, 2, 3,
\* ... and pops and empties the queue in any order
FifoInit ==
  /\ address = Setup.address
  /\ type = Setup.type
  /\ forwardErrorCorrection = Setup.forwardErrorCorrection
  /\ hostValue = 1
  /\ Constructed
  /\ parityErrorHandling = 1 /\ pulseCountErrorHandling = 2

FifoPush(c) ==
  /\ hostValue <= MaxPushes
  /\ hostValue' = hostValue + 1
  /\ my_fifo' = [my_fifo EXCEPT ![c] = push(my_fifo[c], hostValue)]
  /\ UNCHANGED <<cfgVars, isrVars, hwVars, status, feedbackRequested,
                 dataRegister, loopVars, masterVars, reports, sendI,
                 clockVars, histVars>>

\* send8bits() pushes its two nibbles in one call (lines 158-161); the
\* loop calls checkConnection(), and with it pop() or empty(), between two
\* calls of the host
BetweenCalls == hostValue % 2 = 1

\* pop(); the byte it returns is popped(my_fifo[c])
FifoPop(c) ==
  /\ BetweenCalls
  /\ my_fifo' = [my_fifo EXCEPT ![c] = pop(my_fifo[c])]
  /\ UNCHANGED <<cfgVars, isrVars, hwVars, status, feedbackRequested,
                 dataRegister, loopVars, masterVars, hostVars, histVars>>

FifoEmpty(c) ==
  /\ BetweenCalls
  /\ my_fifo' = [my_fifo EXCEPT ![c] = empty(my_fifo[c])]
  /\ UNCHANGED <<cfgVars, isrVars, hwVars, status, feedbackRequested,
                 dataRegister, loopVars, masterVars, hostVars, histVars>>

FifoNext == FifoPush(1) \/ FifoPop(1) \/ FifoEmpty(1)

FifoSpec == FifoInit /\ [][FifoNext]_vars

(***************************************************************************)
(* Properties                                                              *)
(***************************************************************************)
\* the step in which the body of resetAddressPolled() runs
Body == pc = "resetAddressPolled" /\ pc' = "checkConnection"

\* the periodic check at which timeIdle reaches n
TickAt(n) == Body /\ currentCnt = lastPulseCnt /\ timeIdle' = n

\* a step in which rs_interrupt() writes the USART data register
Emission == sentInTrain' = sentInTrain + 1

\* a step that clears rsSignalIsOK
SignalLost == rsSignalIsOK /\ ~rsSignalIsOK'

\* C1: between two consecutive third checks (timeIdle reaching 3) at most
\* one byte is written to the USART, however many connections hold queued
\* bytes and however often sendNibble() is called.
C1_OneBytePerCycle == sentInTrain <= 1

\* a byte has been written in this cycle while both connections still hold
\* queued bytes and the next byte is already staged
C1_Witness ==
  /\ sentInTrain = 1
  /\ \A c \in Conns : size(my_fifo[c]) > 0
  /\ data2sendFlag

\* C2: rsSignalIsOK goes from true to false only in a third check whose
\* pulse count is not 130, in a fifth check with parityErrorHandling 2, or 1
\* and a byte just transmitted, or in a seventh check; no pulse interrupt,
\* checkConnection(), send8bits() or send4bits() clears it.
C2_OnlyThreeEvents ==
  [][SignalLost =>
       \/ TickAt(3) /\ pulses # PulsesPerCycle
       \/ TickAt(5) /\ parityErrorHandling # 0
                    /\ (parityErrorHandling = 1 => flagParity)
       \/ TickAt(7)]_vars

\* the signal has just been declared bad by a fifth check
C2_Witness ==
  /\ ~rsSignalIsOK
  /\ timeIdle = 5
  /\ \A c \in Conns : reset[c] = [stage |-> "pending", tick |-> 5]

\* C3: when exactly 130 pulses were counted since addressPolled was last
\* set to 0 and the master is silent, rsSignalIsOK is true right after the
\* check in which timeIdle reaches 3.
C3_ValidAfter130 ==
  [][TickAt(3) /\ pulses = PulsesPerCycle /\ Silent => rsSignalIsOK']_vars

\* the third check after a train of 130 pulses has just declared the signal
\* good, and no connection has reacted yet
C3_Witness ==
  /\ rsSignalIsOK
  /\ timeIdle = 3
  /\ pc = "checkConnection" /\ conn = 1
  /\ \A c \in Conns : status[c] = "notSynchronised"

\* a step in which sendNibble() of connection c pops a byte and stages it
Handoff(c) ==
  /\ size(my_fifo'[c]) < size(my_fifo[c])
  /\ ~data2sendFlag /\ data2sendFlag'

\* C4: the seventh check leaves rsSignalIsOK false; after it every
\* connection's queue is emptied before the signal is declared good again,
\* and a connection hands off no byte until it has passed through
\* notSynchronised and set feedbackRequested.
C4_SignalLoss ==
  [][/\ TickAt(7) => ~rsSignalIsOK'
     /\ \A c \in Conns :
          reset[c].tick = 7 =>
            /\ ~Handoff(c)
            /\ reset'[c].stage = "pending" => ~rsSignalIsOK'
            /\ reset[c].stage = "pending" /\ reset'[c].stage = "flushed"
                 => size(my_fifo'[c]) = 0
            /\ reset'[c] = NoReset
                 => reset[c].stage = "flushed" /\ feedbackRequested'[c]]_vars

\* the signal was lost after a byte had been sent; after the next valid
\* cycle the first connection has asked for feedback and the second is
\* about to
C4_Witness ==
  /\ dataRegister # 0
  /\ rsSignalIsOK
  /\ reset[1] = NoReset /\ feedbackRequested[1]
  /\ reset[2] = [stage |-> "flushed", tick |-> 7]

Resets(strategy) == strategy = 2 \/ (strategy = 1 /\ emitted)

\* C7: at the fifth check with rsSignalIsOK true, parityErrorHandling 0
\* leaves it true, 1 clears it exactly when the decoder wrote a byte during
\* the train before the silence, 2 clears it.
C7_ParityPolicy ==
  [][TickAt(5) /\ rsSignalIsOK
       => (rsSignalIsOK' <=> ~Resets(parityErrorHandling))]_vars

\* strategy 1: the fifth check has just cleared the signal after a train in
\* which the decoder sent a byte
C7_Witness ==
  /\ timeIdle = 5 /\ pc = "checkConnection" /\ conn = 1
  /\ parityErrorHandling = 1 /\ emitted
  /\ parityErrors = 1
  /\ ~rsSignalIsOK

\* C8: at the third check with a pulse count other than 130 and
\* rsSignalIsOK true, pulseCountErrorHandling 0 leaves it true, 1 clears it
\* exactly when the decoder wrote a byte during the train just ended, 2
\* clears it.
C8_PulseCountPolicy ==
  [][TickAt(3) /\ pulses # PulsesPerCycle /\ rsSignalIsOK
       => (rsSignalIsOK' <=> ~Resets(pulseCountErrorHandling))]_vars

\* strategy 1: the third check has just cleared the signal after a train
\* of the wrong length in which the decoder sent a byte
C8_Witness ==
  /\ timeIdle = 3 /\ pc = "checkConnection" /\ conn = 1
  /\ pulseCountErrorHandling = 1 /\ emitted
  /\ pulseCountErrors = 1
  /\ ~rsSignalIsOK

\* C9: whenever rsSignalIsOK has been cleared, by a retransmission strategy
\* or by the loss of the signal, every connection eventually is back in
\* feedbackIsNeeded, having been notSynchronised with its queue emptied,
\* with feedbackRequested set.
C9_Recovery ==
  \A c \in Conns :
    (reset[c].stage = "pending")
      ~> (reset[c] = NoReset /\ status[c] = "feedbackIsNeeded"
            /\ feedbackRequested[c])

\* a reset forced by the fifth check has run its course for the second
\* connection, which asks for feedback again
C9_Witness ==
  /\ parityErrors = 1
  /\ dataRegister # 0
  /\ reset[2] = NoReset /\ status[2] = "feedbackIsNeeded"
  /\ feedbackRequested[2]

\* C10: while a byte is staged, address2use is the address of the
\* connection whose sendNibble() popped it.
C10_StagedAddress ==
  data2sendFlag => stagedBy \in Conns /\ address2use = address[stagedBy]

\* the second connection has staged a byte after the first one sent one
C10_Witness ==
  /\ data2sendFlag /\ stagedBy = 2
  /\ dataRegister # 0

\* the staged byte is ready and one of the pulse interrupts of this step
\* finds addressPolled equal to address2use
Due ==
  /\ data4IsrFlag
  /\ pulses' > pulses
  /\ \E k \in 0..(pulses' - pulses - 1) : U8(addressPolled + k) = address2use

\* C11: when the staged byte is ready and a pulse interrupt finds
\* addressPolled equal to address2use, that interrupt writes data2send to
\* the USART, clears data2sendFlag and data4IsrFlag and sets
\* dataWasSendFlag; the USART is written at no other moment, and every
\* write uses up the byte one hand-off staged, so no byte goes out twice.
C11_TransmitOnce ==
  [][/\ Due => /\ Emission
               /\ dataRegister' = data2send
               /\ ~data2sendFlag' /\ ~data4IsrFlag'
               /\ dataWasSendFlag'
     /\ Emission => Due /\ stagedBy \in Conns /\ stagedBy' = 0]_vars

\* the first byte of the host's value has just gone out during a train and
\* nothing is staged
C11_Witness ==
  /\ sentInTrain = 1 /\ dataRegister = 98
  /\ dataWasSendFlag
  /\ ~data2sendFlag /\ ~data4IsrFlag /\ stagedBy = 0
  /\ ~Silent

\* the step in which checkConnection() of connection c runs
CheckStep(c) ==
  pc = "checkConnection" /\ conn = c /\ <<pc, conn>>' # <<pc, conn>>

\* the step in which checkConnection() of connection c calls sendNibble()
SendNibbleCalled(c) ==
  /\ CheckStep(c)
  /\ rsSignalIsOK
  /\ status[c] \in {"feedbackNibble1", "feedbackNibble2", "connected"}

\* C12: sendNibble() returns 1 exactly when the queue is not empty, no
\* byte is staged and the address is in 1..128; it then pops the oldest
\* byte and stages it with the connection's address (the state machine
\* advances on the return value 1); otherwise it returns 0 and leaves the
\* queue and data2sendFlag, data2send and address2use as they were.
C12_SendNibble ==
  [][\A c \in Conns :
       SendNibbleCalled(c) =>
         IF /\ size(my_fifo[c]) > 0
            /\ ~data2sendFlag
            /\ address[c] \in 1..128
         THEN /\ data2send' = Head(contents(my_fifo[c]))
              /\ contents(my_fifo'[c]) = Tail(contents(my_fifo[c]))
              /\ address2use' = address[c]
              /\ data2sendFlag'
              /\ status[c] # "connected" => status'[c] # status[c]
         ELSE UNCHANGED <<my_fifo, data2sendFlag, data2send, address2use,
                          status>>]_vars

\* the second connection, with a valid address and bytes queued, has just
\* been refused because the byte of the first is still staged
C12_Witness ==
  /\ pc = "checkPolling" /\ rsSignalIsOK
  /\ data2sendFlag /\ stagedBy = 1
  /\ address[2] \in 1..128
  /\ status[2] = "feedbackNibble2" /\ size(my_fifo[2]) > 0

\* C14: a checkConnection() that finds rsSignalIsOK false leaves its
\* connection notSynchronised with an empty queue and nothing staged,
\* whatever the state of the connection was.
C14_LostCheck ==
  [][\A c \in Conns :
       CheckStep(c) /\ ~rsSignalIsOK =>
         /\ status'[c] = "notSynchronised"
         /\ size(my_fifo'[c]) = 0
         /\ ~data2sendFlag']_vars

\* the signal is bad; the first connection has been reset, the second is
\* still connected with bytes in its queue
C14_Witness ==
  /\ ~rsSignalIsOK
  /\ reset[1].stage = "flushed" /\ status[1] = "notSynchronised"
  /\ size(my_fifo[1]) = 0 /\ ~data2sendFlag
  /\ reset[2].stage = "pending" /\ status[2] = "connected"
  /\ size(my_fifo[2]) > 0

\* the order of the states of checkConnection()
Chain ==
  {<<"notSynchronised", "feedbackIsNeeded">>,
   <<"feedbackIsNeeded", "feedbackNibble1">>,
   <<"feedbackNibble1", "feedbackNibble2">>,
   <<"feedbackNibble2", "connected">>}

\* C13: status changes only in the connection's own checkConnection(); while
\* rsSignalIsOK is true a call moves it at most one place along
\* notSynchronised, feedbackIsNeeded, feedbackNibble1, feedbackNibble2,
\* connected; feedbackIsNeeded is left only with feedbackRequested false,
\* which only send8bits() clears; feedbackNibble1 and feedbackNibble2 are
\* each left only by a call that hands off a byte.
C13_StateOrder ==
  [][\A c \in Conns :
       /\ status'[c] # status[c] => CheckStep(c)
       /\ status'[c] # status[c] /\ rsSignalIsOK =>
            /\ <<status[c], status'[c]>> \in Chain
            /\ status[c] = "feedbackIsNeeded" => ~feedbackRequested[c]
            /\ status[c] \in {"feedbackNibble1", "feedbackNibble2"}
                 => Handoff(c)
       /\ feedbackRequested[c] /\ ~feedbackRequested'[c]
            => send8bits(c, hostValue)]_vars

\* both connections have asked for feedback, the host has not answered and
\* the first connection has been checked once more
C13_Witness ==
  /\ pc = "checkConnection" /\ conn = 2
  /\ rsSignalIsOK
  /\ \A c \in Conns : status[c] = "feedbackIsNeeded" /\ feedbackRequested[c]

\* C15: a connection whose address is 0 or above 128 never has a byte
\* staged, so none is sent for it, and its state machine never gets past
\* feedbackNibble1, however many bytes its queue holds.
C15_InvalidAddressInert ==
  \A c \in Conns :
    address[c] \notin 1..128 =>
      /\ stagedBy # c
      /\ status[c] \in {"notSynchronised", "feedbackIsNeeded", "feedbackNibble1"}

\* the connection with the invalid address waits in feedbackNibble1 with
\* twelve bytes queued while the other connection is connected and has sent
C15_Witness ==
  \E c \in Conns : \E d \in Conns :
    /\ address[c] \notin 1..128
    /\ status[c] = "feedbackNibble1" /\ size(my_fifo[c]) = 12
    /\ status[d] = "connected" /\ dataRegister # 0

\* the bytes a step appends to the queue of connection c
appended(c) ==
  SubSeq(contents(my_fifo'[c]), size(my_fifo[c]) + 1, size(my_fifo'[c]))

\* the four data bits of a message, in the order the host gave them
unreversed(b) ==
  Bit(b, DATA_0) + 2 * Bit(b, DATA_1) + 4 * Bit(b, DATA_2) + 8 * Bit(b, DATA_3)

C17_RoundTrip ==
  [][\A c \in Conns :
       send8bits(c, hostValue) =>
         LET b == appended(c)
         IN /\ Len(b) >= 2
            /\ Bit(b[1], NIBBLEBIT) = 0
            /\ Bit(b[2], NIBBLEBIT) = 1
            /\ unreversed(b[1]) + 16 * unreversed(b[2]) = hostValue]_vars

\* the two bytes of the value 0x5A are queued
C17_Witness ==
  \E c \in Conns :
    /\ size(my_fifo[c]) = 2
    /\ unreversed(contents(my_fifo[c])[1]) = 10
    /\ unreversed(contents(my_fifo[c])[2]) = 5

C22_FullPushDropped ==
  [][\A c \in Conns :
       /\ FifoPush(c) /\ size(my_fifo[c]) = FIFO_SIZE
            => /\ contents(my_fifo'[c]) = contents(my_fifo[c])
               /\ size(my_fifo'[c]) = FIFO_SIZE
               /\ my_fifo'[c].buffer = my_fifo[c].buffer
       /\ FifoPush(c) /\ size(my_fifo[c]) < FIFO_SIZE
            => my_fifo'[c].tail \in 0..(FIFO_SIZE - 1)
       /\ FifoPop(c) /\ size(my_fifo[c]) > 0
            => my_fifo[c].head \in 0..(FIFO_SIZE - 1)
       /\ DOMAIN my_fifo'[c].buffer = 0..(FIFO_SIZE - 1)]_vars

\* the queue is full around the end of its buffer, holding the bytes 2..17
\* in the order they were pushed, and the byte 18 has been pushed and
\* dropped
C22_Witness ==
  /\ size(my_fifo[1]) = FIFO_SIZE
  /\ my_fifo[1].head = 1 /\ my_fifo[1].tail = 0
  /\ contents(my_fifo[1]) = [i \in 1..FIFO_SIZE |-> i + 1]
  /\ hostValue = 19

\* C23 (as amended): pulseCountErrors never goes down, it stays or goes up
\* by one (modulo 256, the counter being 8 bits wide); parityErrors stays
\* or goes up by one, except in the seventh check of a silence, which takes
\* one off again if rsSignalIsOK was still true, and at no other moment.
C23_CountersStep ==
  [][/\ pulseCountErrors' \in {pulseCountErrors, U8(pulseCountErrors + 1)}
     /\ IF TickAt(7) /\ rsSignalIsOK
        THEN parityErrors' = U8(parityErrors + 255)
        ELSE parityErrors' \in {parityErrors, U8(parityErrors + 1)}]_vars

\* C23 as stated: neither parityErrors nor pulseCountErrors ever decreases.
C23_Monotonic ==
  [][parityErrors' >= parityErrors /\ pulseCountErrors' >= pulseCountErrors]_vars

\* with parityErrorHandling 0 a connection that had got past notSynchronised
\* has seen the signal disappear: the fifth check counted a parity error and
\* the seventh check has just taken it off again
C23_Witness ==
  /\ timeIdle = 7 /\ pc = "checkConnection" /\ conn = 1
  /\ parityErrorHandling = 0
  /\ status[1] # "notSynchronised"
  /\ ~rsSignalIsOK
  /\ parityErrors = 0

\* C24: right after the seventh check of a silence parityErrors has the
\* value it had before the silence began, whatever parityErrorHandling is.
C24_LossNotCounted ==
  [][TickAt(7) => parityErrors' = parityBefore]_vars

\* C25: feedbackRequested is false when loop() is first called, and while
\* rsSignalIsOK is false it is false for every connection whose
\* checkConnection() has seen the lost signal (and has put the connection
\* back in notSynchronised).
C25_ClearedOnLoss ==
  \A c \in Conns :
    ~rsSignalIsOK /\ status[c] = "notSynchronised" => ~feedbackRequested[c]

\* C26: pulses being counted from the third check on, a byte that is ready
\* for address a is written to the USART by the interrupt of pulse a + 1 and
\* by no other: a write happens only for an address in 1..128 and only in
\* that interrupt, and that interrupt does write when it finds the byte
\* ready; on an undisturbed line it is pulse a + 1 of the master's train.
C26_SendOnPulse ==
  [][/\ Emission => /\ address2use \in 1..MaxAddress
                    /\ sentAt' = address2use + 1
     /\ data4IsrFlag /\ pulses < address2use + 1 /\ address2use + 1 <= pulses'
          => Emission /\ sentAt' = address2use + 1
     /\ Emission /\ faults' = 0 => train < sentAt' /\ sentAt' <= train']_vars

\* the connection with address 128 has had its byte written by the
\* interrupt of pulse 129, on an undisturbed line
C26_Witness ==
  /\ sentAt = MaxAddress + 1
  /\ train = MaxAddress + 1
  /\ sentInTrain = 1 /\ dataRegister # 0
  /\ faults = 0

C28_SingleSnapshot ==
  [][TickAt(3) =>
       /\ currentCnt = PulsesPerCycle => rsSignalIsOK'
       /\ currentCnt # PulsesPerCycle /\ ~rsSignalIsOK => ~rsSignalIsOK']_vars

C30_ReadyAtBoundary ==
  [][/\ ~data4IsrFlag /\ data4IsrFlag'
          => TickAt(3) /\ pulses = PulsesPerCycle /\ data2sendFlag
     /\ fresh' => ~data4IsrFlag'
     /\ Emission => ~fresh /\ data4IsrFlag]_vars

\* a byte staged for address 1 at the start of a train is still waiting,
\* not ready, when the train has reached pulse 129 without a write
C30_Witness ==
  /\ fresh /\ data2sendFlag /\ ~data4IsrFlag
  /\ address2use = 1
  /\ rsSignalIsOK
  /\ train = PulsesPerCycle - 1 /\ pulses = train
  /\ sentInTrain = 0

\* C31: after a connection has left notSynchronised, the first byte it
\* hands off (in feedbackNibble1) is the low-nibble byte and the second (in
\* feedbackNibble2) the high-nibble byte of the value the host gave to the
\* send8bits() call that answered feedbackRequested, whatever send4bits()
\* or send8bits() calls the host made before that answer.
C31_ConnectWithFeedback ==
  [][\A c \in Conns :
       Handoff(c) =>
         /\ status[c] = "feedbackNibble1"
              => data2send' = formatted(type[c], dataNibble1(hostValue))
         /\ status[c] = "feedbackNibble2"
              => data2send' = formatted(type[c], dataNibble2(hostValue))]_vars

C33_RefinesSequence ==
  [][LET q == my_fifo[1]
         r == my_fifo'[1]
     IN /\ FifoPush(1)
             => contents(r) = IF Len(contents(q)) < FIFO_SIZE
                              THEN Append(contents(q), hostValue)
                              ELSE contents(q)
        /\ FifoPop(1)
             => IF Len(contents(q)) = 0
                THEN popped(q) = 0 /\ r = q
                ELSE /\ popped(q) = Head(contents(q))
                     /\ contents(r) = Tail(contents(q))
        /\ FifoEmpty(1) => contents(r) = <<>>
        /\ Len(contents(r)) = size(r)
        /\ size(r) <= FIFO_SIZE
        /\ \A i \in 1..(size(r) - 1) : contents(r)[i] < contents(r)[i + 1]
        /\ \A i \in 1..size(r) : contents(r)[i] \in 1..(hostValue' - 1)]_vars

\* sixteen bytes were pushed and fifteen popped, which leaves head on the
\* last cell; two more pushes have wrapped the tail around
C33_Witness ==
  /\ my_fifo[1].head = FIFO_SIZE - 1
  /\ my_fifo[1].tail = 1
  /\ contents(my_fifo[1]) = <<16, 17, 18>>
  /\ hostValue = 19

\* every byte connection c holds has gone out: its queue is empty and the
\* staged byte, if any, is not one of its own
Drained(c) == size(my_fifo[c]) = 0 /\ stagedBy # c

\* a step that takes bytes from the queue of c, or the staged byte of c,
\* without handing them on: the queue shrinks without a hand-off, or the
\* staged byte goes without having been written to the USART
Discards(c) ==
  \/ size(my_fifo'[c]) < size(my_fifo[c]) /\ ~Handoff(c)
  \/ stagedBy = c /\ stagedBy' # c /\ ~Emission

C35_NotStarved ==
  \A c \in Conns :
    [](size(my_fifo[c]) > 0 /\ stagedBy # c /\ rsSignalIsOK
         => <>(stagedBy = c \/ ~rsSignalIsOK))

\* C36: rsSignalIsOK goes from false to true only in a third check after
\* exactly 130 pulses since addressPolled was last set to 0; a train of 386
\* pulses, which the 8-bit counter also shows as 130, does not set it.
C36_ExactCount ==
  [][~rsSignalIsOK /\ rsSignalIsOK' => TickAt(3) /\ pulses = PulsesPerCycle]_vars

\* C37: in a silence in which the seventh check has cleared rsSignalIsOK
\* and no pulse has been counted since, every further periodic check
\* leaves rsSignalIsOK false and parityErrors and pulseCountErrors as they
\* were, also the checks made after the 8-bit timeIdle has gone from 255
\* to 0 and reaches 3, 5 and 7 a second time.
C37_SilenceIsStable ==
  [][/\ Body /\ currentCnt = lastPulseCnt
     /\ Silent /\ pulses = 0 /\ addressPolled = 0
     /\ \A c \in Conns : reset[c].tick = 7
     => /\ ~rsSignalIsOK'
        /\ parityErrors' = parityErrors
        /\ pulseCountErrors' = pulseCountErrors]_vars

\* the signal was lost after a byte had been sent and the master is still
\* silent; timeIdle has come round and has just reached 5 for the second
\* time
C37_Witness ==
  /\ Silent /\ silence = "loss"
  /\ timeIdle = 5 /\ pc = "checkConnection" /\ conn = 1
  /\ flagParity = FALSE /\ dataRegister # 0
  /\ \A c \in Conns : reset[c] = [stage |-> "flushed", tick |-> 7]
  /\ ~rsSignalIsOK

\* C38: for every value of forwardErrorCorrection in 0..255, a call of
\* send8bits() or send4bits() returns, and when it does its loop has run
\* 1 + forwardErrorCorrection times (two pushes per iteration in
\* send8bits(), one in send4bits()).
C38_Terminates ==
  [](pc \in {"send8bits", "send4bits"}
       => <>(pc = "checkPolling" /\ sendI = forwardErrorCorrection[conn] + 1))

\* C39: a call of checkPolling() made before millis() has advanced by 2
\* since the last tick changes nothing of the synchronizer: no field of
\* rsISR (counters, flags, the staged byte, tLastCheck), no field of
\* rsbusHardware, no connection and not the USART; it only returns
C39_EarlyCallIsNoOp ==
  [][pc = "checkPolling" /\ pc' # "checkPolling"
       /\ millis - tLastCheck \in {0, 1}
     => /\ UNCHANGED <<isrVars, hwVars, connVars, dataRegister, clockVars,
                       currentCnt, cfgVars>>
        /\ pc' = "checkConnection"]_vars

\* a call made one millisecond after a tick has returned while a byte is
\* ready for the interrupt and pulses have arrived since that tick
C39_Witness ==
  /\ pc = "checkConnection" /\ conn = 1
  /\ millis = tLastCheck + 1
  /\ tLastCheck > 0
  /\ data4IsrFlag /\ rsSignalIsOK
  /\ addressPolled # lastPulseCnt

\* the interrupt has counted a pulse of the current train that the master
\* did not send
ShortSeen == pulses > train

\* C40: on the TCB variant a pulse that arrives 180 us or less after the
\* previous one clears data4IsrFlag and writes nothing to the USART, the
\* staged byte and data2sendFlag stay as they are and addressPolled is
\* advanced; from then on nothing is written to the USART until the train
\* is over
C40_ShortPulseMutes ==
  [][/\ train' = train /\ pulses' = pulses + 1
        => /\ ~data4IsrFlag'
           /\ ~Emission
           /\ UNCHANGED <<dataRegister, data2sendFlag, data2send, address2use,
                          stagedBy, dataWasSendFlag>>
           /\ addressPolled' = U8(addressPolled + 1)
     /\ ShortSeen => ~Emission /\ ~data4IsrFlag']_vars

\* a short pulse has come before the slot of a byte that was ready for
\* this train: the byte is still staged, the flag is down, and the master
\* has sent the rest of the train without anything being written
C40_Witness ==
  /\ ShortSeen
  /\ train = PulsesPerCycle - WinHigh
  /\ rsSignalIsOK
  /\ data2sendFlag /\ ~fresh /\ stagedBy # 0
  /\ ~data4IsrFlag
  /\ sentInTrain = 0

====
